---- MODULE Spec2Model ----
(***************************************************************************)
(* A model of backend/main.py of bundlepdf: html_to_flowables (the cover   *)
(* note converter: get_alignment, process_inline, render_list and the      *)
(* top-level loop) and the merge_pdfs request handler.                     *)
(*                                                                         *)
(* Text is a sequence of one-character strings; the ReportLab markup the   *)
(* converter writes ("<b>", "</b>", ...) and the words of a style          *)
(* attribute are single tokens of such a sequence.  A parse tree node is   *)
(* a record [kind, name, style, s, children]: kind "text" is a             *)
(* NavigableString with content s, kind "tag" an element.  A flowable      *)
(* carries, besides the fields the code sets, the field src: the path      *)
(* (child indices from the root) of the element it was made from.  src is  *)
(* a history field: no operation reads it.                                 *)
(***************************************************************************)
EXTENDS Integers, Sequences, FiniteSets, TLC

VARIABLES pc, soup, idx, flowables,
          mpc, files, file_order, file_map, ordered_names, pos, writer,
          failed_files, response

hvars == <<pc, soup, idx, flowables>>
mvars == <<mpc, files, file_order, file_map, ordered_names, pos, writer,
           failed_files, response>>
vars == <<pc, soup, idx, flowables, mpc, files, file_order, file_map,
          ordered_names, pos, writer, failed_files, response>>

RECURSIVE process_inline(_), InlineChildren(_, _), render_list(_, _, _)
RECURSIVE RenderItems(_, _, _, _), DirectParts(_, _), RenderNestedFrom(_, _, _, _)
RECURSIVE lstrip(_), rstrip(_), FindFrom(_, _, _), LiIndicesFrom(_, _)
RECURSIVE ForestsOf(_), ListsOf(_), NestsOf(_), ItemsOf(_)
RECURSIVE PagesFrom(_, _)
RECURSIVE NodeFrom(_, _, _), VisibleFrom(_, _), Plain(_), LisUnder(_, _), NestedLisFrom(_, _, _)
RECURSIVE HeadFrom(_, _), SplitAcc(_, _)

\* ------------------------------------------------------------ bounds
MaxLi == 3
MaxKids == 2
MaxInline == 2
MaxTop == 2
MaxFiles == 2
MaxPages == 2
MaxOrder == 2

\* ------------------------------------------------------------ text
SP == " "

IsSpace(c) == c = SP

lstrip(s) ==
    IF s = <<>> THEN <<>>
    ELSE IF IsSpace(Head(s)) THEN lstrip(Tail(s)) ELSE s

rstrip(s) ==
    IF s = <<>> THEN <<>>
    ELSE IF IsSpace(s[Len(s)]) THEN rstrip(SubSeq(s, 1, Len(s) - 1)) ELSE s

\* str.strip()
strip(s) == rstrip(lstrip(s))

\* needle in hay (str.__contains__), searching from offset i
FindFrom(needle, hay, i) ==
    IF i + Len(needle) - 1 > Len(hay) THEN FALSE
    ELSE IF SubSeq(hay, i, i + Len(needle) - 1) = needle THEN TRUE
    ELSE FindFrom(needle, hay, i + 1)

Contains(needle, hay) == FindFrom(needle, hay, 1)

\* ------------------------------------------------------------ parse tree
Text(s) == [kind |-> "text", name |-> "", style |-> <<>>, s |-> s, children |-> <<>>]

Tag(name, style, children) ==
    [kind |-> "tag", name |-> name, style |-> style, s |-> <<>>, children |-> children]

IsString(node) == node.kind = "text"

\* ------------------------------------------------------------ flowables
TA_LEFT == "TA_LEFT"
TA_CENTER == "TA_CENTER"
TA_RIGHT == "TA_RIGHT"

Paragraph(text, styleName, parent, alignment, leftIndent, src) ==
    [type |-> "Paragraph", text |-> text, style |-> styleName, parent |-> parent,
     alignment |-> alignment, leftIndent |-> leftIndent, height |-> 0, src |-> src]

Spacer(height, src) ==
    [type |-> "Spacer", text |-> <<>>, style |-> "", parent |-> "",
     alignment |-> TA_LEFT, leftIndent |-> 0, height |-> height, src |-> src]

\* ------------------------------------------------------------ get_alignment
StyleCenterA == <<"text-align", ":", SP, "center">>
StyleCenterB == <<"text-align", ":", "center">>
StyleRightA == <<"text-align", ":", SP, "right">>
StyleRightB == <<"text-align", ":", "right">>

get_alignment(element) ==
    LET style == element.style
    IN  IF Contains(StyleCenterA, style) \/ Contains(StyleCenterB, style) THEN TA_CENTER
        ELSE IF Contains(StyleRightA, style) \/ Contains(StyleRightB, style) THEN TA_RIGHT
        ELSE TA_LEFT

\* ------------------------------------------------------------ process_inline
\* one child of the element being formatted
InlineChild(child) ==
    IF IsString(child) THEN child.s
    ELSE IF child.name \in {"strong", "b"}
         THEN <<"<b>">> \o process_inline(child) \o <<"</b>">>
    ELSE IF child.name \in {"em", "i"}
         THEN <<"<i>">> \o process_inline(child) \o <<"</i>">>
    ELSE IF child.name = "u"
         THEN <<"<u>">> \o process_inline(child) \o <<"</u>">>
    ELSE process_inline(child)

InlineChildren(children, i) ==
    IF i > Len(children) THEN <<>>
    ELSE InlineChild(children[i]) \o InlineChildren(children, i + 1)

\* what the element's joined children become on return
inline_result(joined) == strip(joined)

process_inline(element) ==
    IF IsString(element) THEN element.s
    ELSE inline_result(InlineChildren(element.children, 1))

\* ------------------------------------------------------------ render_list
bullet_char == "u2022"

IsList(node) == node.kind = "tag" /\ node.name \in {"ul", "ol"}

\* find_all('li', recursive=False): the indices of the direct li children
LiIndicesFrom(children, i) ==
    IF i > Len(children) THEN <<>>
    ELSE IF children[i].kind = "tag" /\ children[i].name = "li"
         THEN <<i>> \o LiIndicesFrom(children, i + 1)
         ELSE LiIndicesFrom(children, i + 1)

LiIndices(list_element) == LiIndicesFrom(list_element.children, 1)

\* text_parts: the children of li up to its first nested list
DirectParts(children, i) ==
    IF i > Len(children) THEN <<>>
    ELSE IF IsString(children[i]) THEN children[i].s \o DirectParts(children, i + 1)
    ELSE IF children[i].name \in {"ul", "ol"} THEN <<>>
    ELSE process_inline(children[i]) \o DirectParts(children, i + 1)

direct_text(li) == strip(DirectParts(li.children, 1))

\* a faulty variant: the counter is not reset when a nested list starts
item_num_not_reset(list_element, level, k) == k + level

\* a faulty variant: the counter advances only for an li that emits a block
item_num_emitted_only(list_element, level, k) ==
    LET lis == LiIndices(list_element)
    IN  Cardinality({i \in 1..k : direct_text(list_element.children[lis[i]]) # <<>>})

\* the value of item_num while the k-th li of a list rendered at level is
\* handled: 0 on entry, one more for each li
item_num_at(list_element, level, k) == k

item_prefix(is_ordered, item_num) ==
    IF is_ordered THEN <<ToString(item_num), ".", SP, SP>>
    ELSE <<bullet_char, SP, SP>>

item_indent(level) == 10 + (level * 10)

\* the li's own paragraph and spacer, when its text is not empty
ItemBlock(li, is_ordered, item_num, level, path) ==
    LET text == direct_text(li)
    IN  IF text # <<>>
        THEN << Paragraph(item_prefix(is_ordered, item_num) \o text, "list", "Normal",
                          TA_LEFT, item_indent(level), path),
                Spacer(1, path) >>
        ELSE <<>>

\* a faulty variant: a nested list is rendered at its parent's level
nested_level_same(level) == level

nested_level(level) == level + 1

\* for nested_list in li.find_all(['ul', 'ol'], recursive=False)
RenderNestedFrom(li, level, path, j) ==
    IF j > Len(li.children) THEN <<>>
    ELSE IF IsList(li.children[j])
         THEN render_list(li.children[j], nested_level(level), path \o <<j>>)
              \o RenderNestedFrom(li, level, path, j + 1)
         ELSE RenderNestedFrom(li, level, path, j + 1)

\* a faulty variant: the nested lists are rendered before the item's own block
RenderItemNestedFirst(li, is_ordered, item_num, level, path) ==
    RenderNestedFrom(li, level, path, 1)
    \o ItemBlock(li, is_ordered, item_num, level, path)

\* one iteration of the loop over the li children
RenderItem(li, is_ordered, item_num, level, path) ==
    ItemBlock(li, is_ordered, item_num, level, path)
    \o RenderNestedFrom(li, level, path, 1)

RenderItems(list_element, level, path, k) ==
    LET lis == LiIndices(list_element)
    IN  IF k > Len(lis) THEN <<>>
        ELSE RenderItem(list_element.children[lis[k]], list_element.name = "ol",
                        item_num_at(list_element, level, k), level, path \o <<lis[k]>>)
             \o RenderItems(list_element, level, path, k + 1)

render_list(list_element, level, path) == RenderItems(list_element, level, path, 1)

\* ------------------------------------------------------------ inputs
\* The parse trees BeautifulSoup(html_content, 'html.parser') hands over.
\* The parser merges adjacent strings: no node has two text children in a row.
SeqsUpTo(S, n) == UNION {[1..k -> S] : k \in 0..n}

NoAdjacentText(q) == \A i \in 1..(Len(q) - 1) : ~(IsString(q[i]) /\ IsString(q[i + 1]))

A == Text(<<"a">>)
WS == Text(<<SP>>)

\* nested lists with n li elements in all
PlainHeads == {<<>>, <<A>>}

ItemsOf(n) ==
    IF n = 0 THEN {}
    ELSE {Tag("li", <<>>, h \o nest) : h \in PlainHeads, nest \in NestsOf(n - 1)}

ListsOf(n) == {Tag(nm, <<>>, f) : nm \in {"ul", "ol"}, f \in ForestsOf(n)}

NestsOf(m) ==
    IF m = 0 THEN {<<>>}
    ELSE UNION {{<<l>> \o r : l \in ListsOf(k), r \in NestsOf(m - k)} : k \in 1..m}

ForestsOf(n) ==
    IF n = 0 THEN {<<>>}
    ELSE UNION {{<<li>> \o r : li \in ItemsOf(k), r \in ForestsOf(n - k)} : k \in 1..n}

DeepLists == UNION {ListsOf(n) : n \in 1..MaxLi}

\* flat lists with inline content, strings between the items and text after a
\* nested list
OneItem(nm) == Tag(nm, <<>>, <<Tag("li", <<>>, <<A>>)>>)

RichHeads ==
    { <<>>, <<WS>>,
      <<Text(<<"a", SP>>), Tag("strong", <<>>, <<Text(<<"a", SP>>)>>), A>>,
      <<Tag("p", <<>>, <<A>>)>>,
      <<Tag("p", <<>>, <<Tag("strong", <<>>, <<WS>>)>>)>> }

RichTails == { <<>>, <<OneItem("ol")>>, <<OneItem("ul"), A>> }

RichKids == {WS} \cup {Tag("li", <<>>, h \o t) : h \in RichHeads, t \in RichTails}

RichLists ==
    {Tag(nm, <<>>, k) : nm \in {"ul", "ol"},
                        k \in {q \in SeqsUpTo(RichKids, MaxKids) : NoAdjacentText(q)}}

\* headings and paragraphs with inline content
InlineTexts == {<<SP>>, <<"a">>, <<SP, "a", SP>>}

InlineEls ==
    {Tag(n, <<>>, c) : n \in {"strong", "b", "em", "u", "span"},
                       c \in {<<>>, <<WS>>, <<Text(<<SP, "a", SP>>)>>}}
    \cup {Tag("strong", <<>>, <<A, Tag("em", <<>>, <<A>>)>>)}

InlineNodes == {Text(t) : t \in InlineTexts} \cup InlineEls

InlineSeqs == {q \in SeqsUpTo(InlineNodes, MaxInline) : NoAdjacentText(q)}

BlockNames == {"h1", "h2", "h3", "p"}

Blocks == {Tag(nm, <<>>, c) : nm \in BlockNames, c \in InlineSeqs}

\* style attributes: one or two declarations
Separators == {<<":">>, <<":", SP>>, <<":", SP, SP>>, <<SP, ":", SP>>}
AlignValues == {"center", "right", "left", "justify"}

Declaration(sep, v) == <<"text-align">> \o sep \o <<v>>

Styles ==
    {<<>>}
    \cup {Declaration(sep, v) : sep \in Separators, v \in AlignValues}
    \cup {Declaration(<<":", SP>>, v) \o <<";", SP>> \o Declaration(<<":", SP>>, w) :
            v \in AlignValues, w \in AlignValues}
    \cup {<<"color", ":", SP, "red", ";", SP>> \o Declaration(<<":", SP>>, v) \o <<";">> :
            v \in AlignValues}

StyledBlocks == {Tag(nm, st, <<A>>) : nm \in BlockNames, st \in Styles}

TopTexts == {Text(t) : t \in InlineTexts \cup {<<"a", SP, "a">>}}

OtherTags == {Tag("div", <<>>, <<A>>), Tag("ul", <<>>, <<>>), Tag("ol", <<>>, <<>>)}

\* <ol><li>a<ol><li>a</li><li>a</li></ol></li><li>a</li></ol>
TwoInTwo ==
    Tag("ol", <<>>,
        << Tag("li", <<>>, <<A, Tag("ol", <<>>, <<Tag("li", <<>>, <<A>>),
                                                  Tag("li", <<>>, <<A>>)>>)>>),
           Tag("li", <<>>, <<A>>) >>)

TopNodes == TopTexts \cup Blocks \cup StyledBlocks \cup DeepLists \cup RichLists
            \cup OtherTags \cup {TwoInTwo}

\* the nodes documents of several top-level nodes are made of
Core ==
    { A, WS,
      Tag("h1", <<>>, <<A>>), Tag("h2", <<>>, <<>>),
      Tag("h3", StyleCenterA, <<A>>),
      Tag("p", <<>>, <<A>>), Tag("p", <<>>, <<WS>>),
      OneItem("ul"),
      Tag("ol", <<>>, <<Tag("li", <<>>, <<>>), Tag("li", <<>>, <<A>>)>>),
      Tag("div", <<>>, <<A>>) }

Soups ==
    {<<>>}
    \cup {<<x>> : x \in TopNodes}
    \cup {q \in SeqsUpTo(Core, MaxTop) : Len(q) >= 2 /\ NoAdjacentText(q)}

\* ------------------------------------------------------------ html_to_flowables
\* not html_content or not html_content.strip(): the document is nothing but
\* whitespace
Blank(doc) == \A i \in 1..Len(doc) : IsString(doc[i]) /\ strip(doc[i].s) = <<>>

MergeIdle ==
    /\ mpc = "idle" /\ files = <<>> /\ file_order = <<>> /\ file_map = <<>>
    /\ ordered_names = <<>> /\ pos = 0 /\ writer = <<>> /\ failed_files = <<>>
    /\ response = "none"

Init ==
    /\ pc = "start"
    /\ soup \in Soups
    /\ idx = 0
    /\ flowables = <<>>
    /\ MergeIdle

EarlyReturn ==
    /\ pc = "start"
    /\ Blank(soup)
    /\ pc' = "done"
    /\ UNCHANGED <<soup, idx, flowables>>
    /\ UNCHANGED mvars

Parse ==
    /\ pc = "start"
    /\ ~Blank(soup)
    /\ pc' = "loop"
    /\ idx' = 1
    /\ UNCHANGED <<soup, flowables>>
    /\ UNCHANGED mvars

InLoop == pc = "loop" /\ idx <= Len(soup)

Advance(new) ==
    /\ flowables' = flowables \o new
    /\ idx' = idx + 1
    /\ UNCHANGED <<pc, soup>>
    /\ UNCHANGED mvars

SkipString ==
    /\ InLoop
    /\ IsString(soup[idx])
    /\ Advance(<<>>)

heading_block(element, tag, parent, space, path) ==
    << Paragraph(process_inline(element), tag, parent, get_alignment(element), 0, path),
       Spacer(space, path) >>

paragraph_block(element, path) ==
    LET text == process_inline(element)
    IN  IF text # <<>>
        THEN << Paragraph(text, "p", "Normal", get_alignment(element), 0, path),
                Spacer(2, path) >>
        ELSE <<>>

list_block(element, path) == render_list(element, 0, path) \o <<Spacer(2, path)>>

IsTag(node, names) == ~IsString(node) /\ node.name \in names

StepH1 ==
    /\ InLoop
    /\ IsTag(soup[idx], {"h1"})
    /\ Advance(heading_block(soup[idx], "h1", "Heading1", 6, <<idx>>))

StepH2 ==
    /\ InLoop
    /\ IsTag(soup[idx], {"h2"})
    /\ Advance(heading_block(soup[idx], "h2", "Heading2", 4, <<idx>>))

StepH3 ==
    /\ InLoop
    /\ IsTag(soup[idx], {"h3"})
    /\ Advance(heading_block(soup[idx], "h3", "Heading3", 3, <<idx>>))

StepP ==
    /\ InLoop
    /\ IsTag(soup[idx], {"p"})
    /\ Advance(paragraph_block(soup[idx], <<idx>>))

StepList ==
    /\ InLoop
    /\ IsTag(soup[idx], {"ul", "ol"})
    /\ Advance(list_block(soup[idx], <<idx>>))

\* a tag none of the branches names: the loop body does nothing
StepOther ==
    /\ InLoop
    /\ ~IsString(soup[idx])
    /\ soup[idx].name \notin {"h1", "h2", "h3", "p", "ul", "ol"}
    /\ Advance(<<>>)

Return ==
    /\ pc = "loop"
    /\ idx > Len(soup)
    /\ pc' = "done"
    /\ UNCHANGED <<soup, idx, flowables>>
    /\ UNCHANGED mvars

Next ==
    \/ EarlyReturn
    \/ Parse
    \/ SkipString
    \/ StepH1
    \/ StepH2
    \/ StepH3
    \/ StepP
    \/ StepList
    \/ StepOther
    \/ Return

Spec == Init /\ [][Next]_vars

\* ------------------------------------------------------------ merge_pdfs
\* An upload is [filename, id, npages, readable]: id is its place among the
\* uploads, npages the number of pages PdfReader finds in it, readable whether
\* PdfReader reads it; reading an unreadable one raises before any page is added.
\* A page is [doc, n]; the cover page's doc is 0.
FileNames == {"a.pdf", "b.pdf"}
OrderNames == FileNames \cup {"c.pdf"}

Uploads ==
    {q \in SeqsUpTo([filename : FileNames, id : 1..MaxFiles, npages : 1..MaxPages,
                     readable : BOOLEAN], MaxFiles) :
        \A i \in 1..Len(q) : q[i].id = i}

PagesFrom(doc, n) ==
    IF n = 0 THEN <<>> ELSE PagesFrom(doc, n - 1) \o <<[doc |-> doc, n |-> n]>>

\* reader.pages
PagesOf(data) == PagesFrom(data.id, data.npages)

\* the pages of the PDF create_front_page returns
FrontPages == <<[doc |-> 0, n |-> 1]>>

\* file_map[f.filename] = data: a dict keeps a key's first place
HasKey(map, name) == \E i \in 1..Len(map) : map[i].filename = name

Lookup(map, name) == map[CHOOSE i \in 1..Len(map) : map[i].filename = name]

Put(map, data) ==
    IF HasKey(map, data.filename)
    THEN [i \in 1..Len(map) |-> IF map[i].filename = data.filename THEN data ELSE map[i]]
    ELSE Append(map, data)

Keys(map) == [i \in 1..Len(map) |-> map[i].filename]

HtmlIdle == pc = "idle" /\ soup = <<>> /\ idx = 0 /\ flowables = <<>>

InitMerge ==
    /\ HtmlIdle
    /\ mpc = "read"
    /\ files \in Uploads
    /\ file_order \in SeqsUpTo(OrderNames, MaxOrder)
    /\ file_map = <<>>
    /\ ordered_names = <<>>
    /\ pos = 1
    /\ writer = <<>>
    /\ failed_files = <<>>
    /\ response = "none"

\* for f in files: file_map[f.filename] = await f.read()
ReadFile ==
    /\ mpc = "read"
    /\ pos <= Len(files)
    /\ file_map' = Put(file_map, files[pos])
    /\ pos' = pos + 1
    /\ UNCHANGED <<mpc, files, file_order, ordered_names, writer, failed_files, response>>
    /\ UNCHANGED hvars

OrderFiles ==
    /\ mpc = "read"
    /\ pos > Len(files)
    /\ ordered_names' = IF file_order # <<>> THEN file_order ELSE Keys(file_map)
    /\ mpc' = "front"
    /\ UNCHANGED <<files, file_order, file_map, pos, writer, failed_files, response>>
    /\ UNCHANGED hvars

AddFrontPage ==
    /\ mpc = "front"
    /\ writer' = writer \o FrontPages
    /\ failed_files' = <<>>
    /\ pos' = 1
    /\ mpc' = "merge"
    /\ UNCHANGED <<files, file_order, file_map, ordered_names, response>>
    /\ UNCHANGED hvars

InMerge == mpc = "merge" /\ pos <= Len(ordered_names)

\* if name not in file_map: continue
MergeSkip ==
    /\ InMerge
    /\ ~HasKey(file_map, ordered_names[pos])
    /\ pos' = pos + 1
    /\ UNCHANGED <<mpc, files, file_order, file_map, ordered_names, writer,
                   failed_files, response>>
    /\ UNCHANGED hvars

MergeAdd ==
    /\ InMerge
    /\ HasKey(file_map, ordered_names[pos])
    /\ Lookup(file_map, ordered_names[pos]).readable
    /\ writer' = writer \o PagesOf(Lookup(file_map, ordered_names[pos]))
    /\ pos' = pos + 1
    /\ UNCHANGED <<mpc, files, file_order, file_map, ordered_names, failed_files,
                   response>>
    /\ UNCHANGED hvars

MergeFail ==
    /\ InMerge
    /\ HasKey(file_map, ordered_names[pos])
    /\ ~Lookup(file_map, ordered_names[pos]).readable
    /\ failed_files' = Append(failed_files, ordered_names[pos])
    /\ pos' = pos + 1
    /\ UNCHANGED <<mpc, files, file_order, file_map, ordered_names, writer, response>>
    /\ UNCHANGED hvars

\* the StreamingResponse: the X-Failed-Files header is set when a file failed
Respond ==
    /\ mpc = "merge"
    /\ pos > Len(ordered_names)
    /\ response' = [status |-> 200, body |-> writer,
                    has_failed_header |-> failed_files # <<>>,
                    failed |-> failed_files]
    /\ mpc' = "done"
    /\ UNCHANGED <<files, file_order, file_map, ordered_names, pos, writer, failed_files>>
    /\ UNCHANGED hvars

NextMerge ==
    \/ ReadFile
    \/ OrderFiles
    \/ AddFrontPage
    \/ MergeSkip
    \/ MergeAdd
    \/ MergeFail
    \/ Respond

SpecMerge == InitMerge /\ [][NextMerge]_vars

\* ------------------------------------------------------------ the document, read independently of the converter
\* the node at a path of child indices
NodeFrom(node, path, i) ==
    IF i > Len(path) THEN node ELSE NodeFrom(node.children[path[i]], path, i + 1)

NodeAt(path) == NodeFrom(soup[path[1]], path, 2)

Parent(path) == SubSeq(path, 1, Len(path) - 1)

\* the text a reader sees in a node: its strings, in order
VisibleFrom(children, i) ==
    IF i > Len(children) THEN <<>>
    ELSE (IF IsString(children[i]) THEN children[i].s
          ELSE VisibleFrom(children[i].children, 1))
         \o VisibleFrom(children, i + 1)

VisibleText(node) == IF IsString(node) THEN node.s ELSE VisibleFrom(node.children, 1)

MarkupTokens == {"<b>", "</b>", "<i>", "</i>", "<u>", "</u>"}

\* a run without its markup
Plain(text) ==
    IF text = <<>> THEN <<>>
    ELSE IF Head(text) \in MarkupTokens THEN Plain(Tail(text))
    ELSE <<Head(text)>> \o Plain(Tail(text))

\* the children of an li before its first nested list
HeadFrom(children, i) ==
    IF i > Len(children) \/ IsList(children[i]) THEN <<>>
    ELSE <<children[i]>> \o HeadFrom(children, i + 1)

DirectHead(li) == HeadFrom(li.children, 1)

DirectContent(li) == strip(VisibleFrom(DirectHead(li), 1))

\* the paths of the li elements render_list is to visit under a list
NestedLisFrom(li, path, j) ==
    IF j > Len(li.children) THEN {}
    ELSE (IF IsList(li.children[j]) THEN LisUnder(li.children[j], path \o <<j>>) ELSE {})
         \cup NestedLisFrom(li, path, j + 1)

LisUnder(list_element, path) ==
    UNION { {path \o <<i>>} \cup NestedLisFrom(list_element.children[i], path \o <<i>>, 1) :
            i \in {j \in 1..Len(list_element.children) :
                     IsTag(list_element.children[j], {"li"})} }

AllLis ==
    UNION { IF IsList(soup[i]) THEN LisUnder(soup[i], <<i>>) ELSE {} : i \in 1..Len(soup) }

\* the place of the li at path among the li children of its list
LiPosition(path) ==
    LET kids == NodeAt(Parent(path)).children
    IN  Cardinality({j \in 1..path[Len(path)] : IsTag(kids[j], {"li"})})

\* the ul and ol elements among the proper ancestors of the node at path
ListAncestors(path) ==
    Cardinality({k \in 1..(Len(path) - 1) : IsList(NodeAt(SubSeq(path, 1, k)))})

PathLess(p, q) ==
    \/ Len(p) < Len(q) /\ SubSeq(q, 1, Len(p)) = p
    \/ \E k \in 1..Len(p) :
          /\ k <= Len(q)
          /\ SubSeq(p, 1, k - 1) = SubSeq(q, 1, k - 1)
          /\ p[k] < q[k]

Texts == {i \in 1..Len(flowables) : flowables[i].type = "Paragraph"}
Items == {i \in Texts : flowables[i].style = "list"}
BlockTexts == {i \in Texts : flowables[i].style \in BlockNames}

ListOf(i) == NodeAt(Parent(flowables[i].src))
Marker(i) == flowables[i].text[1]
Depth(i) == (flowables[i].leftIndent - 10) \div 10
Body(i) ==
    LET t == flowables[i].text
    IN  IF ListOf(i).name = "ol" THEN SubSeq(t, 5, Len(t)) ELSE SubSeq(t, 4, Len(t))

Done == pc = "done"

\* ------------------------------------------------------------ claims
\* C2: the text-bearing flowables are in document order: the paths of the
\* elements they were made from increase strictly, so a block comes before
\* the blocks of its nested lists, these before the block of the next
\* sibling, and no element yields two blocks.
C2_DocumentOrder ==
    \A i \in Texts : \A j \in Texts :
        i < j => PathLess(flowables[i].src, flowables[j].src)

\* an li's block, then a block of its nested list, then its next sibling's
C2_Witness ==
    /\ Done
    /\ \E i \in Items : \E j \in Items : \E k \in Items :
          /\ i < j /\ j < k
          /\ Parent(Parent(flowables[j].src)) = flowables[i].src
          /\ Parent(flowables[k].src) = Parent(flowables[i].src)

\* C5: an ul item carries the bullet; an ol item carries "<n>." where the
\* first li of every ol, at any depth, has n = 1 and the next li of the same
\* list has the next number, whatever lists are nested in between.
C5_MarkersPerList ==
    \A i \in Items :
        IF ListOf(i).name = "ul"
        THEN SubSeq(flowables[i].text, 1, 3) = <<bullet_char, SP, SP>>
        ELSE /\ SubSeq(flowables[i].text, 2, 4) = <<".", SP, SP>>
             /\ \E n \in 1..Len(ListOf(i).children) : Marker(i) = ToString(n)
             /\ LiPosition(flowables[i].src) = 1 => Marker(i) = "1"
             /\ \A j \in Items :
                   ( /\ Parent(flowables[j].src) = Parent(flowables[i].src)
                     /\ LiPosition(flowables[j].src) = LiPosition(flowables[i].src) + 1 )
                   => \E n \in 1..Len(ListOf(i).children) :
                         Marker(i) = ToString(n) /\ Marker(j) = ToString(n + 1)

\* <ol><li>a<ol><li>a</li><li>a</li></ol></li><li>a</li></ol>: outer 1, 2 and
\* inner 1, 2
C5_Witness ==
    /\ Done
    /\ soup = <<TwoInTwo>>
    /\ Len(flowables) = 9
    /\ <<Marker(1), Marker(3), Marker(5), Marker(7)>> = <<"1", "1", "2", "2">>
    /\ <<Depth(1), Depth(3), Depth(5), Depth(7)>> = <<0, 1, 1, 0>>

\* C6 as stated: the depth of a list item block, read from its left indent
\* 10 + 10 * depth, is the number of ul/ol ancestors of its li.
C6_DepthIsListAncestors ==
    \A i \in Items : Depth(i) = ListAncestors(flowables[i].src)

\* C6 as amended: the depth of a list item block is the number of ul/ol
\* ancestors of its li other than the list the li is a child of, and its left
\* indent is 10 + 10 * depth.
C6_DepthIsEnclosingLists ==
    \A i \in Items :
        /\ Depth(i) = ListAncestors(flowables[i].src) - 1
        /\ flowables[i].leftIndent = 10 + 10 * Depth(i)

\* items at depth 0, 1 and 2 in one document
C6_Witness ==
    /\ Done
    /\ \A d \in 0..2 : \E i \in Items : Depth(i) = d

C3_PlainTextParagraph ==
    (Done /\ Len(soup) = 1 /\ IsString(soup[1]) /\ strip(soup[1].s) # <<>>)
    => /\ Cardinality(Texts) = 1
       /\ \A i \in Texts :
             /\ flowables[i].style = "p"
             /\ flowables[i].text = strip(soup[1].s)

\* C4: a top-level h1, h2, h3, p, ul or ol with no visible text but whitespace
\* leaves nothing in the result, neither a paragraph nor a spacer.
C4_EmptyBlocksDropped ==
    Done =>
        \A i \in 1..Len(soup) :
            ( /\ IsTag(soup[i], BlockNames \cup {"ul", "ol"})
              /\ strip(VisibleText(soup[i])) = <<>> )
            => ~\E k \in 1..Len(flowables) : flowables[k].src[1] = i

\* C7: an li whose visible text before its first nested list is not blank has
\* exactly one block, at the depth of its list, and the block's text after the
\* marker is that visible text trimmed.
C7_ItemTextIsDirectContent ==
    Done =>
        \A p \in AllLis :
            DirectContent(NodeAt(p)) # <<>>
            => /\ Cardinality({i \in Items : flowables[i].src = p}) = 1
               /\ \A i \in Items :
                     flowables[i].src = p
                     => /\ Plain(Body(i)) = DirectContent(NodeAt(p))
                        /\ Depth(i) = ListAncestors(p) - 1

\* C8: the text of a heading or paragraph block without its markup is the
\* visible text of its element, trimmed at the two ends only.
C8_VisibleTextPreserved ==
    \A i \in BlockTexts :
        Plain(flowables[i].text) = strip(VisibleText(NodeAt(flowables[i].src)))

\* the value of the text-align property of a style attribute: the declarations
\* are separated by ";", a declaration is property ":" value, spaces around
\* either do not count, and the last declaration of a property is the one in force
SplitAcc(s, cur) ==
    IF s = <<>> THEN <<cur>>
    ELSE IF Head(s) = ";" THEN <<cur>> \o SplitAcc(Tail(s), <<>>)
    ELSE SplitAcc(Tail(s), Append(cur, Head(s)))

ColonAt(d) ==
    IF \E i \in 1..Len(d) : d[i] = ":"
    THEN CHOOSE i \in 1..Len(d) : d[i] = ":" /\ \A j \in 1..(i - 1) : d[j] # ":"
    ELSE 0

PropertyOf(d) == strip(SubSeq(d, 1, ColonAt(d) - 1))
ValueOf(d) == strip(SubSeq(d, ColonAt(d) + 1, Len(d)))

TextAlignValue(style) ==
    LET ds == SplitAcc(style, <<>>)
        hits == {i \in 1..Len(ds) : ColonAt(ds[i]) > 0 /\ PropertyOf(ds[i]) = <<"text-align">>}
    IN  IF hits = {} THEN <<>>
        ELSE ValueOf(ds[CHOOSE i \in hits : \A j \in hits : j <= i])

\* C9: the alignment of a heading or paragraph block is center when the value
\* of text-align in its element's style is center, right when it is right, and
\* left otherwise.
C9_AlignmentFromValue ==
    \A i \in BlockTexts :
        LET v == TextAlignValue(NodeAt(flowables[i].src).style)
        IN  flowables[i].alignment =
                IF v = <<"center">> THEN TA_CENTER
                ELSE IF v = <<"right">> THEN TA_RIGHT
                ELSE TA_LEFT

\* C1: the response is the cover page, then the pages of every readable upload,
\* each once and in the caller's order (file_order, or the order of upload when
\* file_order is empty); an unreadable upload adds no page and is named in
\* X-Failed-Files.
PlacesOf(doc, n) ==
    {k \in 1..Len(response.body) : response.body[k] = [doc |-> doc, n |-> n]}

CallerPuts(i, j) ==
    IF file_order = <<>> THEN i < j
    ELSE \E a \in 1..Len(file_order) : \E b \in 1..Len(file_order) :
            a < b /\ file_order[a] = files[i].filename /\ file_order[b] = files[j].filename

C1_MergedInOrder ==
    mpc = "done" =>
        /\ response.status = 200
        /\ SubSeq(response.body, 1, Len(FrontPages)) = FrontPages
        /\ \A i \in 1..Len(files) : \A n \in 1..files[i].npages :
              IF files[i].readable
              THEN Cardinality(PlacesOf(i, n)) = 1
              ELSE /\ PlacesOf(i, n) = {}
                   /\ response.has_failed_header
                   /\ \E k \in 1..Len(response.failed) :
                         response.failed[k] = files[i].filename
        /\ \A i \in 1..Len(files) : \A j \in 1..Len(files) :
              (files[i].readable /\ files[j].readable /\ i # j /\ CallerPuts(i, j))
              => \A m \in 1..files[i].npages : \A n \in 1..files[j].npages :
                    \A x \in PlacesOf(i, m) : \A y \in PlacesOf(j, n) : x < y

====
